---------------------------- MODULE Spec2Model ----------------------------
(***************************************************************************)
(* The two fruit workflows of kaggle-fruite-tutorial (example_01.py and    *)
(* example_02.py): their node functions, router functions and graph        *)
(* wiring, run by the invoke loop of the state-graph engine they are       *)
(* compiled with.                                                          *)
(*                                                                         *)
(* A Python str is a sequence of one-character strings, so that strip(),   *)
(* lower() and the f-string of confirm_fruit are computed, not assumed.    *)
(* A state (a Python dict) is a function whose DOMAIN is the set of keys   *)
(* that are present.                                                       *)
(***************************************************************************)
EXTENDS Integers, Sequences, FiniteSets, TLC

VARIABLES graph, workflow, inv

vars == <<graph, workflow, inv>>

---------------------------------------------------------------------------
(* Bounds of the model.                                                    *)

\* longest run of whitespace put before or after a word of an init_input
MaxPad == 1

---------------------------------------------------------------------------
(* String literals of the two scripts.                                     *)

apple == <<"a", "p", "p", "l", "e">>
banana == <<"b", "a", "n", "a", "n", "a">>
cherry == <<"c", "h", "e", "r", "r", "y">>
ErrorMarker == <<"e", "r", "r", "o", "r">>
yes == <<"y", "e", "s">>
SelectedPrefix == <<"Y", "o", "u", " ", "s", "e", "l", "e", "c", "t", "e", "d", " ">>
SelectedSuffix == <<",", " ", "w", "h", "i", "c", "h", " ", "i", "s", " ", "a", " ", "v", "a", "l", "i", "d", " ", "f", "r", "u", "i", "t", ".">>

\* the list ["apple", "banana", "cherry"] of input_fruit
ValidFruits == {apple, banana, cherry}

\* Python's None: no sequence of one-character strings equals it
None == <<"None">>
NoneText == <<"N", "o", "n", "e">>

\* the empty str, the default of state.get("init_input", "")
EmptyStr == <<>>

(* Strings a caller may pass that the scripts do not name.                 *)
mango == <<"m", "a", "n", "g", "o">>
kiwi == <<"k", "i", "w", "i">>
stale == <<"s", "t", "a", "l", "e">>
no == <<"n", "o">>
AppleCap == <<"A", "p", "p", "l", "e">>
BananaUpper == <<"B", "A", "N", "A", "N", "A">>
AppLe == <<"a", "p", "p", " ", "l", "e">>
YesUpper == <<"Y", "E", "S">>
YesPadded == <<" ", "y", "e", "s">>

---------------------------------------------------------------------------
(* str.strip() and str.lower().                                            *)

\* the characters str.strip() removes (the ASCII whitespace)
Whitespace == {" ", "\t", "\n", "\r", "\f"}

UpperCase == <<"A", "B", "C", "D", "E", "F", "G", "H", "I", "J", "K", "L", "M", "N", "O", "P", "Q", "R", "S", "T", "U", "V", "W", "X", "Y", "Z">>
LowerCase == <<"a", "b", "c", "d", "e", "f", "g", "h", "i", "j", "k", "l", "m", "n", "o", "p", "q", "r", "s", "t", "u", "v", "w", "x", "y", "z">>

LowerChar(c) ==
    IF \E k \in DOMAIN UpperCase : UpperCase[k] = c
    THEN LowerCase[CHOOSE k \in DOMAIN UpperCase : UpperCase[k] = c]
    ELSE c

lower(s) == [k \in 1..Len(s) |-> LowerChar(s[k])]

\* the positions of s that hold no whitespace
NonWhitespace(s) == {k \in 1..Len(s) : s[k] \notin Whitespace}

\* s from its first to its last character that is no whitespace
strip(s) ==
    LET keep == NonWhitespace(s)
    IN  IF keep = {} THEN <<>>
        ELSE SubSeq(s, CHOOSE a \in keep : \A k \in keep : a <= k,
                       CHOOSE b \in keep : \A k \in keep : k <= b)

\* f"{value}": a str is inserted as it is, None as the text None
Format(v) == IF v = None THEN NoneText ELSE v

---------------------------------------------------------------------------
(* States: Python dicts over the keys of GraphState.                       *)

EmptyState == [k \in {} |-> EmptyStr]

\* dict.get(key, default)
Get(state, key, default) == IF key \in DOMAIN state THEN state[key] ELSE default

\* the keys GraphState declares in each script
StateKeys(g) ==
    IF g = "example_01"
    THEN {"init_input", "fruit", "final_result"}
    ELSE {"init_input", "fruit", "final_result", "user_confirmation"}

---------------------------------------------------------------------------
(* Node functions.  A node either raises or returns a partial state.       *)

\* input_fruit reading state["init_input"] where it has state.get: a
\* missing key raises too
input_fruit_raises_on_missing(state) ==
    "init_input" \notin DOMAIN state \/ state["init_input"] = None

\* input_fruit raises AttributeError when init_input is present and None:
\* state.get returns None and None has no strip()
input_fruit_raises(state) == Get(state, "init_input", EmptyStr) = None

\* input_fruit without its .lower()
input_fruit_no_lower(state) ==
    LET init_input == strip(Get(state, "init_input", EmptyStr))
    IN  IF init_input \notin ValidFruits
        THEN [fruit |-> ErrorMarker]
        ELSE [fruit |-> init_input]

\* input_fruit without its membership test: the normalised input is the fruit
input_fruit_unvalidated(state) ==
    [fruit |-> lower(strip(Get(state, "init_input", EmptyStr)))]

input_fruit(state) ==
    LET init_input == lower(strip(Get(state, "init_input", EmptyStr)))
    IN  IF init_input \notin ValidFruits
        THEN [fruit |-> ErrorMarker]
        ELSE [fruit |-> init_input]

\* state['fruit'] raises KeyError when the key is absent
review_fruit_raises(state) == "fruit" \notin DOMAIN state

\* review_fruit echoing the caller's raw input instead of the fruit field
review_fruit_raw(state) == [fruit |-> Get(state, "init_input", EmptyStr)]

review_fruit(state) == [fruit |-> state["fruit"]]

confirm_fruit_raises(state) == "fruit" \notin DOMAIN state

confirm_fruit(state) ==
    [final_result |-> SelectedPrefix \o Format(state["fruit"]) \o SelectedSuffix]

\* error returning a whole reset state instead of the one field
error_resets_input(state) == [final_result |-> ErrorMarker, init_input |-> EmptyStr]

\* error keeping a module-level count of the invocations that have returned
error_stateful(state) ==
    [final_result |-> IF \E j \in DOMAIN inv : inv[j].status = "done"
                      THEN ErrorMarker \o <<" ", "a", "g", "a", "i", "n">>
                      ELSE ErrorMarker]

error(state) == [final_result |-> ErrorMarker]

---------------------------------------------------------------------------
(* Router functions.                                                       *)

\* continue_next of example_01.py with its test inverted
continue_next_01_inverted(state) ==
    IF Get(state, "fruit", None) = ErrorMarker
    THEN "to_confirm_fruit"
    ELSE "to_error"

\* continue_next of example_01.py returning the route key of example_02.py
continue_next_01_review(state) ==
    IF Get(state, "fruit", None) # ErrorMarker
    THEN "to_review_fruit"
    ELSE "to_error"

\* continue_next of example_01.py; state.get("fruit") is None when absent
continue_next_01(state) ==
    IF Get(state, "fruit", None) # ErrorMarker
    THEN "to_confirm_fruit"
    ELSE "to_error"

\* continue_next of example_02.py
continue_next_02(state) ==
    IF Get(state, "fruit", None) # ErrorMarker
    THEN "to_review_fruit"
    ELSE "to_error"

\* review_decision with its test inverted
review_decision_inverted(state) ==
    IF Get(state, "user_confirmation", None) # yes
    THEN "to_confirm_fruit"
    ELSE "to_error"

review_decision(state) ==
    IF Get(state, "user_confirmation", None) = yes
    THEN "to_confirm_fruit"
    ELSE "to_error"

---------------------------------------------------------------------------
(* The two workflows as built by add_node, add_edge, set_entry_point and   *)
(* add_conditional_edges.                                                  *)

Graphs == {"example_01", "example_02"}

START == "__start__"
END == "__end__"

\* add_node
Nodes(g) ==
    IF g = "example_01"
    THEN {"input_fruit", "confirm_fruit", "error"}
    ELSE {"input_fruit", "review_fruit", "confirm_fruit", "error"}

\* the function a node name is bound to
NodeFn(n, state) ==
    CASE n = "input_fruit" -> input_fruit(state)
      [] n = "review_fruit" -> review_fruit(state)
      [] n = "confirm_fruit" -> confirm_fruit(state)
      [] n = "error" -> error(state)

\* the exception the node's function raises on this state, "" when none
NodeError(n, state) ==
    CASE n = "input_fruit" ->
            IF input_fruit_raises(state) THEN "AttributeError" ELSE ""
      [] n = "review_fruit" ->
            IF review_fruit_raises(state) THEN "KeyError" ELSE ""
      [] n = "confirm_fruit" ->
            IF confirm_fruit_raises(state) THEN "KeyError" ELSE ""
      [] n = "error" -> ""

\* the static edges with error wired back to input_fruit, as a retry
StaticEdgesRetry(g) ==
    (START :> "input_fruit") @@ ("confirm_fruit" :> END) @@ ("error" :> "input_fruit")

\* the static edges with error wired to confirm_fruit instead of END
StaticEdgesErrorOn(g) ==
    (START :> "input_fruit") @@ ("confirm_fruit" :> END) @@ ("error" :> "confirm_fruit")

\* add_edge(START, "input_fruit") / set_entry_point("input_fruit"),
\* add_edge("confirm_fruit", END), add_edge("error", END)
StaticEdges(g) ==
    (START :> "input_fruit") @@ ("confirm_fruit" :> END) @@ ("error" :> END)

\* add_conditional_edges: the source nodes
ConditionalSources(g) ==
    IF g = "example_01" THEN {"input_fruit"} ELSE {"input_fruit", "review_fruit"}

\* add_conditional_edges: the router of a source node, applied to a state
Router(g, n, state) ==
    CASE g = "example_01" /\ n = "input_fruit" -> continue_next_01(state)
      [] g = "example_02" /\ n = "input_fruit" -> continue_next_02(state)
      [] g = "example_02" /\ n = "review_fruit" -> review_decision(state)

\* the route maps with example_01's map of input_fruit left in example_02:
\* to_review_fruit leads to confirm_fruit
RouteMapSkipsReview(g, n) ==
    CASE g = "example_01" /\ n = "input_fruit" ->
            [to_confirm_fruit |-> "confirm_fruit", to_error |-> "error"]
      [] g = "example_02" /\ n = "input_fruit" ->
            [to_review_fruit |-> "confirm_fruit", to_error |-> "error"]
      [] g = "example_02" /\ n = "review_fruit" ->
            [to_confirm_fruit |-> "confirm_fruit", to_error |-> "error"]

\* add_conditional_edges: the route map of a source node
RouteMap(g, n) ==
    CASE g = "example_01" /\ n = "input_fruit" ->
            [to_confirm_fruit |-> "confirm_fruit", to_error |-> "error"]
      [] g = "example_02" /\ n = "input_fruit" ->
            [to_review_fruit |-> "review_fruit", to_error |-> "error"]
      [] g = "example_02" /\ n = "review_fruit" ->
            [to_confirm_fruit |-> "confirm_fruit", to_error |-> "error"]

---------------------------------------------------------------------------
(* The statements that build each workflow, in the order of the script,    *)
(* and the graph builder that executes them.                               *)

AddNodeStmt(name) == [op |-> "add_node", from |-> name, to |-> "", map |-> {}]

AddEdgeStmt(from, to) == [op |-> "add_edge", from |-> from, to |-> to, map |-> {}]

SetEntryPointStmt(name) == [op |-> "set_entry_point", from |-> START, to |-> name, map |-> {}]

\* the route map as its set of <<route key, destination>> pairs
AddConditionalEdgesStmt(from, map) ==
    [op |-> "add_conditional_edges", from |-> from, to |-> "", map |-> map]

CompileStmt == [op |-> "compile", from |-> "", to |-> "", map |-> {}]

\* the script of example_01.py without its add_edge("error", END)
ScriptMissingEdge(g) ==
    <<AddNodeStmt("input_fruit"),
      AddNodeStmt("confirm_fruit"),
      AddNodeStmt("error"),
      AddEdgeStmt(START, "input_fruit"),
      AddEdgeStmt("confirm_fruit", END),
      AddConditionalEdgesStmt("input_fruit",
          {<<"to_confirm_fruit", "confirm_fruit">>, <<"to_error", "error">>}),
      CompileStmt>>

Script(g) ==
    IF g = "example_01"
    THEN <<AddNodeStmt("input_fruit"),
           AddNodeStmt("confirm_fruit"),
           AddNodeStmt("error"),
           AddEdgeStmt(START, "input_fruit"),
           AddEdgeStmt("confirm_fruit", END),
           AddEdgeStmt("error", END),
           AddConditionalEdgesStmt("input_fruit",
               {<<"to_confirm_fruit", "confirm_fruit">>, <<"to_error", "error">>}),
           CompileStmt>>
    ELSE <<AddNodeStmt("input_fruit"),
           AddNodeStmt("review_fruit"),
           AddNodeStmt("confirm_fruit"),
           AddNodeStmt("error"),
           SetEntryPointStmt("input_fruit"),
           AddEdgeStmt("confirm_fruit", END),
           AddEdgeStmt("error", END),
           AddConditionalEdgesStmt("input_fruit",
               {<<"to_review_fruit", "review_fruit">>, <<"to_error", "error">>}),
           AddConditionalEdgesStmt("review_fruit",
               {<<"to_confirm_fruit", "confirm_fruit">>, <<"to_error", "error">>}),
           CompileStmt>>

\* StateGraph(GraphState): no node, no edge, nothing executed yet.
\* edges holds <<from, to>>, branches holds <<from, route key, to>>
EmptyWorkflow ==
    [pc |-> 0, nodes |-> {}, edges |-> {}, branches |-> {},
     compiled |-> FALSE, error |-> ""]

\* the statement the script executes next
NextStmt == Script(graph)[workflow.pc + 1]

CanBuild ==
    /\ workflow.error = ""
    /\ workflow.pc < Len(Script(graph))

\* the sources that already have an outgoing static or conditional edge
Sources(w) == {e[1] : e \in w.edges} \cup {b[1] : b \in w.branches}

\* the builder after a statement has raised
Failed(name) == [workflow EXCEPT !.error = name]

\* the builder after a statement has returned
Done(w) == [w EXCEPT !.pc = @ + 1]

AddNode ==
    /\ CanBuild
    /\ NextStmt.op = "add_node"
    /\ workflow' =
         IF NextStmt.from \in workflow.nodes \cup {START, END}
         THEN Failed("DuplicateNodeError")
         ELSE Done([workflow EXCEPT !.nodes = @ \cup {NextStmt.from}])
    /\ UNCHANGED <<graph, inv>>

\* add_edge(from, to) on the builder
EdgeAdded(from, to) ==
    IF from \notin workflow.nodes \cup {START} \/ to \notin workflow.nodes \cup {END}
    THEN Failed("UnknownNodeError")
    ELSE IF from \in Sources(workflow)
    THEN Failed("DuplicateEdgeError")
    ELSE Done([workflow EXCEPT !.edges = @ \cup {<<from, to>>}])

AddEdge ==
    /\ CanBuild
    /\ NextStmt.op = "add_edge"
    /\ workflow' = EdgeAdded(NextStmt.from, NextStmt.to)
    /\ UNCHANGED <<graph, inv>>

\* set_entry_point(name) is add_edge(START, name)
SetEntryPoint ==
    /\ CanBuild
    /\ NextStmt.op = "set_entry_point"
    /\ workflow' = EdgeAdded(START, NextStmt.to)
    /\ UNCHANGED <<graph, inv>>

AddConditionalEdges ==
    /\ CanBuild
    /\ NextStmt.op = "add_conditional_edges"
    /\ workflow' =
         IF \/ NextStmt.from \notin workflow.nodes \cup {START}
            \/ \E m \in NextStmt.map : m[2] \notin workflow.nodes \cup {END}
         THEN Failed("UnknownNodeError")
         ELSE IF NextStmt.from \in Sources(workflow)
         THEN Failed("DuplicateEdgeError")
         ELSE Done([workflow EXCEPT !.branches =
                       @ \cup {<<NextStmt.from, m[1], m[2]>> : m \in NextStmt.map}])
    /\ UNCHANGED <<graph, inv>>

\* the nodes of w that a path of edges and routes from START leads to
RECURSIVE ReachableFrom(_, _)
ReachableFrom(w, S) ==
    LET more == S \cup {e[2] : e \in {x \in w.edges : x[1] \in S}}
                  \cup {b[3] : b \in {x \in w.branches : x[1] \in S}}
    IN  IF more = S THEN S ELSE ReachableFrom(w, more)

Reachable(w) == ReachableFrom(w, {START})

\* what compile() requires of the definition
Valid(w) ==
    /\ \A e \in w.edges : e[1] \in w.nodes \cup {START} /\ e[2] \in w.nodes \cup {END}
    /\ \A b \in w.branches : b[1] \in w.nodes /\ b[3] \in w.nodes \cup {END}
    /\ Cardinality({e \in w.edges : e[1] = START}) = 1
    /\ \A n \in w.nodes :
          ~(n \in {e[1] : e \in w.edges} /\ n \in {b[1] : b \in w.branches})

Compile ==
    /\ CanBuild
    /\ NextStmt.op = "compile"
    /\ workflow' =
         IF Valid(workflow)
         THEN Done([workflow EXCEPT !.compiled = TRUE])
         ELSE Failed("GraphValidationError")
    /\ UNCHANGED <<graph, inv>>

Build ==
    \/ AddNode
    \/ AddEdge
    \/ SetEntryPoint
    \/ AddConditionalEdges
    \/ Compile

---------------------------------------------------------------------------
(* The invoke loop of the compiled graph.                                  *)

\* key-wise overwrite of the running state by a node's partial state
Merge(state, partial) ==
    [k \in DOMAIN state \cup DOMAIN partial |->
        IF k \in DOMAIN partial THEN partial[k] ELSE state[k]]

\* the router called with the state from before the node ran
RouterInputStale(before, merged) == before

\* the state a router is called with: the running state after the merge
RouterInput(before, merged) == merged

\* the next hop after node n: the route key ("" on a static edge) and the
\* destination ("" when the route map has no such key)
NextHop(g, n, before, merged) ==
    IF n \in ConditionalSources(g)
    THEN LET key == Router(g, n, RouterInput(before, merged))
         IN  [key  |-> key,
              dest |-> IF key \in DOMAIN RouteMap(g, n)
                       THEN RouteMap(g, n)[key] ELSE ""]
    ELSE [key |-> "", dest |-> StaticEdges(g)[n]]

\* the invocations a caller may have in flight on one compiled graph
Invs == {1, 2}

Idle ==
    [status |-> "idle", error |-> "", cur |-> START,
     state |-> EmptyState, init |-> EmptyState, trace |-> <<>>,
     before |-> EmptyState, partial |-> EmptyState,
     key |-> "", saw |-> EmptyState, written |-> {}]

\* one running state shared by every invocation
RunningStateShared(i) == inv[1].state

\* the running state invocation i hands to its nodes
RunningState(i) == inv[i].state

---------------------------------------------------------------------------
(* The initial states a caller passes to app.invoke.                       *)

PadChars == {" ", "\n"}

\* the runs of at most MaxPad whitespace characters
Pads == UNION {[1..n -> PadChars] : n \in 0..MaxPad}

Padded(words) == {l \o w \o r : l \in Pads, w \in words, r \in Pads}

CherryTabbed == <<"\t">> \o cherry \o <<"\r">>

InitInputValues ==
    {None, banana, ErrorMarker, AppleCap, BananaUpper, AppLe, CherryTabbed}
        \cup Padded({apple, mango, EmptyStr})

FruitValues == {ErrorMarker, banana, kiwi}

FinalResultValues == {stale}

ConfirmationValues == {yes, no, YesUpper, YesPadded, None}

\* the dicts of S, and each of them with key k set to a value of vals
WithKey(S, k, vals) == S \cup {Merge(s, k :> v) : s \in S, v \in vals}

InitialStates(g) ==
    LET a == WithKey({EmptyState}, "init_input", InitInputValues)
        b == WithKey(a, "fruit", FruitValues)
        c == WithKey(b, "final_result", FinalResultValues)
    IN  IF "user_confirmation" \in StateKeys(g)
        THEN WithKey(c, "user_confirmation", ConfirmationValues)
        ELSE c

\* a smaller choice, for two invocations in flight at once
ApplePadded == <<" ">> \o AppleCap \o <<"\n">>

ParallelStates(g) ==
    LET a == WithKey({EmptyState}, "init_input", {apple, ApplePadded, mango, None})
        b == WithKey(a, "fruit", {ErrorMarker})
    IN  IF "user_confirmation" \in StateKeys(g)
        THEN {Merge(s, "user_confirmation" :> v) : s \in b, v \in {yes, no}}
        ELSE b

---------------------------------------------------------------------------
(* Actions.                                                                *)

TypeOK ==
    /\ graph \in Graphs
    /\ DOMAIN inv = Invs
    /\ \A i \in Invs :
        /\ inv[i].status \in {"idle", "running", "done", "raised"}
        /\ inv[i].cur \in Nodes(graph) \cup {START, END}
        /\ DOMAIN inv[i].state \subseteq StateKeys(graph)

Init ==
    /\ graph \in Graphs
    /\ workflow = EmptyWorkflow
    /\ inv = [i \in Invs |-> Idle]

\* result = app.invoke(s0): the running state is a copy of s0 and the
\* current node is the destination of START's edge
Start(i, s0) ==
    /\ inv[i].status = "idle"
    /\ inv' = [inv EXCEPT ![i] =
                  [Idle EXCEPT !.status = "running",
                               !.cur = StaticEdges(graph)[START],
                               !.state = s0,
                               !.init = s0]]
    /\ UNCHANGED <<graph, workflow>>

Invoke(i) ==
    /\ workflow.compiled
    /\ inv[i].status = "idle"
    /\ \E s0 \in InitialStates(graph) : Start(i, s0)

InvokeParallel(i) ==
    /\ workflow.compiled
    /\ inv[i].status = "idle"
    /\ \E s0 \in ParallelStates(graph) : Start(i, s0)

\* one turn of the loop on node n: call the node's function, merge its
\* partial state, resolve the next node.  An exception of the node's
\* function, or a route key the route map lacks, aborts the invocation.
ExecNode(i, n) ==
    /\ inv[i].status = "running"
    /\ LET before == RunningState(i)
           raised == NodeError(n, before)
       IN  IF raised # ""
           THEN inv' = [inv EXCEPT ![i].status = "raised",
                                   ![i].error = raised,
                                   ![i].trace = Append(@, n)]
           ELSE LET partial == NodeFn(n, before)
                    merged == Merge(before, partial)
                    hop == NextHop(graph, n, before, merged)
                IN  inv' = [inv EXCEPT
                       ![i].status = IF hop.dest = "" THEN "raised" ELSE @,
                       ![i].error = IF hop.dest = "" THEN "UnmappedRouteError" ELSE @,
                       ![i].cur = IF hop.dest = "" THEN @ ELSE hop.dest,
                       ![i].state = merged,
                       ![i].trace = Append(@, n),
                       ![i].before = before,
                       ![i].partial = partial,
                       ![i].key = hop.key,
                       ![i].written = @ \cup DOMAIN partial,
                       ![i].saw = IF n \in ConditionalSources(graph)
                                  THEN RouterInput(before, merged)
                                  ELSE EmptyState]
    /\ UNCHANGED <<graph, workflow>>

InputFruitStep(i) ==
    /\ inv[i].cur = "input_fruit"
    /\ ExecNode(i, "input_fruit")

ReviewFruitStep(i) ==
    /\ inv[i].cur = "review_fruit"
    /\ ExecNode(i, "review_fruit")

ConfirmFruitStep(i) ==
    /\ inv[i].cur = "confirm_fruit"
    /\ ExecNode(i, "confirm_fruit")

ErrorStep(i) ==
    /\ inv[i].cur = "error"
    /\ ExecNode(i, "error")

\* the current node is END: invoke returns the running state
Return(i) ==
    /\ inv[i].status = "running"
    /\ inv[i].cur = END
    /\ inv' = [inv EXCEPT ![i].status = "done"]
    /\ UNCHANGED <<graph, workflow>>

Step(i) ==
    \/ InputFruitStep(i)
    \/ ReviewFruitStep(i)
    \/ ConfirmFruitStep(i)
    \/ ErrorStep(i)
    \/ Return(i)

\* the script: build the workflow, compile it, invoke it
Next == Build \/ Invoke(1) \/ Step(1)

Spec == Init /\ [][Next]_vars

\* two invocations of the same compiled graph, their steps interleaved
NextParallel == Build \/ \E i \in Invs : InvokeParallel(i) \/ Step(i)

SpecParallel == Init /\ [][NextParallel]_vars

\* invoke as a function of the graph and the initial state alone: the loop
\* from node n on, with the nodes executed so far
RECURSIVE RunFrom(_, _, _, _)
RunFrom(g, n, state, trace) ==
    IF n = END
    THEN [status |-> "done", state |-> state, trace |-> trace]
    ELSE IF NodeError(n, state) # ""
    THEN [status |-> "raised", state |-> state, trace |-> Append(trace, n)]
    ELSE LET merged == Merge(state, NodeFn(n, state))
             hop == NextHop(g, n, state, merged)
         IN  IF hop.dest = ""
             THEN [status |-> "raised", state |-> merged, trace |-> Append(trace, n)]
             ELSE RunFrom(g, hop.dest, merged, Append(trace, n))

RunAlone(g, s0) == RunFrom(g, StaticEdges(g)[START], s0, <<>>)

---------------------------------------------------------------------------
(* What the claims speak of.                                               *)

\* the init_input of an initial state after .strip().lower(); a None has none
HasNormalised(s0) == Get(s0, "init_input", EmptyStr) # None

Normalised(s0) == lower(strip(Get(s0, "init_input", EmptyStr)))

ValidInput(s0) == HasNormalised(s0) /\ Normalised(s0) \in ValidFruits

InvalidInput(s0) == HasNormalised(s0) /\ Normalised(s0) \notin ValidFruits

Started(i) == inv[i].status # "idle"

Finished(i) == inv[i].status = "done"

\* invocation i is somewhere on the given path: it has executed a prefix of
\* it without raising, and its current node is the next one (END after all)
OnPath(i, path) ==
    /\ inv[i].status \in {"running", "done"}
    /\ Len(inv[i].trace) <= Len(path)
    /\ inv[i].trace = SubSeq(path, 1, Len(inv[i].trace))
    /\ inv[i].cur = IF Len(inv[i].trace) = Len(path)
                    THEN END ELSE path[Len(inv[i].trace) + 1]

SelectedMessage(fruit) == SelectedPrefix \o fruit \o SelectedSuffix

---------------------------------------------------------------------------
\* C1: in example_01, an invocation whose init_input normalises to apple,
\* banana or cherry runs input_fruit, then confirm_fruit, then END, and its
\* final state has fruit = the normalised name and final_result =
\* "You selected <fruit>, which is a valid fruit."
C1_ValidFruitConfirmed ==
    \A i \in Invs :
        (graph = "example_01" /\ Started(i) /\ ValidInput(inv[i].init)) =>
            /\ OnPath(i, <<"input_fruit", "confirm_fruit">>)
            /\ Finished(i) =>
                /\ inv[i].cur = END
                /\ "fruit" \in DOMAIN inv[i].state
                /\ inv[i].state["fruit"] = Normalised(inv[i].init)
                /\ "final_result" \in DOMAIN inv[i].state
                /\ inv[i].state["final_result"]
                       = SelectedMessage(Normalised(inv[i].init))

\* a returned invocation of example_01 on " Apple\n"-like input: fruit apple
C1_Witness ==
    \E i \in Invs :
        /\ graph = "example_01"
        /\ Finished(i)
        /\ Get(inv[i].init, "init_input", EmptyStr) = AppleCap
        /\ inv[i].trace = <<"input_fruit", "confirm_fruit">>
        /\ inv[i].state["fruit"] = apple
        /\ inv[i].state["final_result"] = SelectedMessage(apple)

---------------------------------------------------------------------------
\* C2 as stated: in example_01, an invocation whose normalised init_input is
\* not apple, banana or cherry runs input_fruit, then error, then END, and
\* its final state is exactly {fruit: "error", final_result: "error"}.
C2_FinalStateIsErrorPair ==
    \A i \in Invs :
        (graph = "example_01" /\ Started(i) /\ InvalidInput(inv[i].init)) =>
            /\ OnPath(i, <<"input_fruit", "error">>)
            /\ Finished(i) =>
                inv[i].state = [fruit |-> ErrorMarker, final_result |-> ErrorMarker]

\* C2 amended: in example_01, an invocation whose normalised init_input is
\* not apple, banana or cherry runs input_fruit, then error, then END, and
\* its final state is the initial state with fruit and final_result both set
\* to "error": the other keys the caller passed (init_input) are still there.
C2_InvalidFruitRoutedToError ==
    \A i \in Invs :
        (graph = "example_01" /\ Started(i) /\ InvalidInput(inv[i].init)) =>
            /\ OnPath(i, <<"input_fruit", "error">>)
            /\ Finished(i) =>
                /\ inv[i].cur = END
                /\ DOMAIN inv[i].state = DOMAIN inv[i].init \cup {"fruit", "final_result"}
                /\ inv[i].state["fruit"] = ErrorMarker
                /\ inv[i].state["final_result"] = ErrorMarker
                /\ \A k \in DOMAIN inv[i].init \ {"fruit", "final_result"} :
                       inv[i].state[k] = inv[i].init[k]

\* a returned invocation of example_01 on {init_input: "mango"}
C2_Witness ==
    \E i \in Invs :
        /\ graph = "example_01"
        /\ Finished(i)
        /\ inv[i].init = [init_input |-> mango]
        /\ inv[i].trace = <<"input_fruit", "error">>
        /\ inv[i].state = [init_input |-> mango, fruit |-> ErrorMarker,
                           final_result |-> ErrorMarker]

---------------------------------------------------------------------------
\* C3: in example_02, an invocation with a valid fruit in init_input and
\* user_confirmation = "no" executes exactly input_fruit, review_fruit,
\* error, in that order, then END, and its final state has
\* final_result = "error".
C3_RejectionRoutedToError ==
    \A i \in Invs :
        (/\ graph = "example_02"
         /\ Started(i)
         /\ ValidInput(inv[i].init)
         /\ Get(inv[i].init, "user_confirmation", None) = no) =>
            /\ OnPath(i, <<"input_fruit", "review_fruit", "error">>)
            /\ Finished(i) =>
                /\ inv[i].cur = END
                /\ inv[i].trace = <<"input_fruit", "review_fruit", "error">>
                /\ "final_result" \in DOMAIN inv[i].state
                /\ inv[i].state["final_result"] = ErrorMarker

\* a returned invocation of example_02 on
\* {init_input: "apple", user_confirmation: "no"}
C3_Witness ==
    \E i \in Invs :
        /\ graph = "example_02"
        /\ Finished(i)
        /\ inv[i].init = [init_input |-> apple, user_confirmation |-> no]
        /\ inv[i].trace = <<"input_fruit", "review_fruit", "error">>
        /\ inv[i].state["final_result"] = ErrorMarker

---------------------------------------------------------------------------
\* the most nodes one invocation of the graph executes, as C4 states it
NodesAtMost(g) == IF g = "example_01" THEN 2 ELSE 3

\* invocation i can take a step: it is in the loop, at a node or at END
CanStep(i) ==
    /\ inv[i].status = "running"
    /\ inv[i].cur \in Nodes(graph) \cup {END}

\* C4: for both graphs and every initial state invoke terminates: an
\* invocation executes at most 2 nodes in example_01 and 3 in example_02,
\* and until it has returned from END it can always take its next step, so
\* that under fairness its current node eventually becomes END.
C4_InvokeTerminates ==
    \A i \in Invs :
        Started(i) =>
            /\ Len(inv[i].trace) <= NodesAtMost(graph)
            /\ Finished(i) \/ CanStep(i)

---------------------------------------------------------------------------
Last(seq) == seq[Len(seq)]

\* the last node invocation i executed has returned a partial state
NodeReturned(i) == inv[i].trace # <<>> /\ inv[i].error \notin {"AttributeError", "KeyError"}

\* C5: the merge is a key-wise overwrite: after a node has executed, every
\* key it returned holds the returned value and every other key is as it was
\* before the node ran (present with the same value, or absent).  So in a
\* final state init_input and user_confirmation are as the caller passed
\* them, and a key the caller did not pass and no node returned is absent.
C5_MergeIsKeywiseOverwrite ==
    \A i \in Invs :
        /\ NodeReturned(i) =>
            /\ \A k \in DOMAIN inv[i].partial :
                   k \in DOMAIN inv[i].state /\ inv[i].state[k] = inv[i].partial[k]
            /\ \A k \in StateKeys(graph) \ DOMAIN inv[i].partial :
                   /\ k \in DOMAIN inv[i].state <=> k \in DOMAIN inv[i].before
                   /\ k \in DOMAIN inv[i].state => inv[i].state[k] = inv[i].before[k]
        /\ Finished(i) =>
            /\ \A k \in {"init_input", "user_confirmation"} :
                   /\ k \in DOMAIN inv[i].state <=> k \in DOMAIN inv[i].init
                   /\ k \in DOMAIN inv[i].init => inv[i].state[k] = inv[i].init[k]
            /\ \A k \in StateKeys(graph) :
                   (k \notin DOMAIN inv[i].init /\ k \notin inv[i].written)
                       => k \notin DOMAIN inv[i].state

\* error has overwritten a stale final_result and left the rest,
\* and user_confirmation, never passed nor returned, is absent at the end
C5_Witness ==
    \E i \in Invs :
        /\ Finished(i)
        /\ graph = "example_02"
        /\ Last(inv[i].trace) = "error"
        /\ "user_confirmation" \notin DOMAIN inv[i].state
        /\ Get(inv[i].before, "final_result", EmptyStr) = stale
        /\ inv[i].state["final_result"] = ErrorMarker
        /\ Get(inv[i].state, "init_input", EmptyStr) = mango

---------------------------------------------------------------------------
\* C6: a router is called with the state after the merge of the node that
\* just ran: continue_next sees the fruit input_fruit has just returned,
\* whatever fruit the caller's initial state carried, and review_decision
\* sees the state with review_fruit's result merged.
C6_RouterSeesMergedState ==
    \A i \in Invs :
        (NodeReturned(i) /\ Last(inv[i].trace) \in ConditionalSources(graph)) =>
            /\ inv[i].saw = Merge(inv[i].before, inv[i].partial)
            /\ inv[i].saw = inv[i].state
            /\ "fruit" \in DOMAIN inv[i].saw
            /\ inv[i].saw["fruit"] = inv[i].partial["fruit"]
            /\ Last(inv[i].trace) = "input_fruit" =>
                /\ ValidInput(inv[i].init) =>
                       inv[i].saw["fruit"] = Normalised(inv[i].init)
                /\ InvalidInput(inv[i].init) => inv[i].saw["fruit"] = ErrorMarker
                /\ inv[i].key = IF inv[i].saw["fruit"] = ErrorMarker
                                THEN "to_error"
                                ELSE IF graph = "example_01"
                                     THEN "to_confirm_fruit"
                                     ELSE "to_review_fruit"

\* the caller passed fruit = "error" with a valid init_input: continue_next
\* saw the fruit input_fruit returned and routed on
C6_Witness ==
    \E i \in Invs :
        /\ graph = "example_01"
        /\ inv[i].trace = <<"input_fruit">>
        /\ Get(inv[i].init, "fruit", EmptyStr) = ErrorMarker
        /\ Get(inv[i].saw, "fruit", EmptyStr) = banana
        /\ inv[i].key = "to_confirm_fruit"
        /\ inv[i].cur = "confirm_fruit"

---------------------------------------------------------------------------
\* C7: static edges do not look at the state: in both graphs, once
\* confirm_fruit or error has executed the current node is END, and the
\* first node executed after START is input_fruit, whatever the state holds.
C7_StaticEdgesIgnoreState ==
    \A i \in Invs :
        /\ (inv[i].trace # <<>> /\ Last(inv[i].trace) \in {"confirm_fruit", "error"}) =>
               inv[i].cur = END /\ inv[i].status \in {"running", "done"}
        /\ (Started(i) /\ inv[i].trace = <<>>) => inv[i].cur = "input_fruit"
        /\ inv[i].trace # <<>> => inv[i].trace[1] = "input_fruit"

\* error has executed on a state that holds a valid fruit and a confirmation
C7_Witness ==
    \E i \in Invs :
        /\ graph = "example_02"
        /\ inv[i].trace # <<>>
        /\ Last(inv[i].trace) = "error"
        /\ inv[i].cur = END
        /\ inv[i].state["fruit"] = cherry
        /\ Get(inv[i].state, "user_confirmation", None) = YesUpper

---------------------------------------------------------------------------
\* invocation i has ended: invoke has returned or raised
Ended(i) == inv[i].status \in {"done", "raised"}

\* C8: two invocations of the same compiled graph with identical initial
\* states execute the identical sequence of nodes and end with the identical
\* final state, in both graphs and for every initial state.
C8_SameInputSameResult ==
    \A i, j \in Invs :
        (Ended(i) /\ Ended(j) /\ inv[i].init = inv[j].init) =>
            /\ inv[i].trace = inv[j].trace
            /\ inv[i].state = inv[j].state
            /\ inv[i].status = inv[j].status

\* both invocations have returned from {init_input: "mango", ...} by error
C8_Witness ==
    /\ Finished(1) /\ Finished(2)
    /\ inv[1].init = inv[2].init
    /\ Get(inv[1].init, "init_input", EmptyStr) = mango
    /\ Last(inv[1].trace) = "error"
    /\ Last(inv[2].trace) = "error"

---------------------------------------------------------------------------
\* C9: two invocations of the same compiled graph whose steps interleave
\* each own their running state: a step changes one invocation only, the
\* other's running state, current node and route are as they were, and an
\* invocation that has returned holds the final state, and has executed the
\* nodes, that invoke yields on its initial state when it runs alone.
C9_PrivateRunningState ==
    [][/\ Cardinality({i \in Invs : inv'[i] # inv[i]}) <= 1
       /\ \A i \in Invs :
            inv'[i].status = "done" =>
                /\ inv'[i].state = RunAlone(graph, inv'[i].init).state
                /\ inv'[i].trace = RunAlone(graph, inv'[i].init).trace]_vars

\* two invocations on different initial states, both in the middle of
\* their runs, the second further on than the first
C9_Witness ==
    /\ graph = "example_02"
    /\ inv[1].status = "running" /\ inv[2].status = "running"
    /\ inv[1].init # inv[2].init
    /\ inv[1].trace = <<"input_fruit">>
    /\ inv[2].trace = <<"input_fruit", "review_fruit">>
    /\ inv[1].state["fruit"] = ErrorMarker
    /\ inv[2].state["fruit"] = apple

---------------------------------------------------------------------------
\* C10: every route key a router returns is a key of its conditional edge's
\* route map (continue_next of example_01: to_confirm_fruit, to_error;
\* continue_next of example_02: to_review_fruit, to_error; review_decision:
\* to_confirm_fruit, to_error), on the state it is called with and on every
\* other state an invocation is ever in, so no invocation ends in
\* UnmappedRouteError.
C10_RouteKeysCovered ==
    \A i \in Invs :
        /\ inv[i].error # "UnmappedRouteError"
        /\ inv[i].key # "" =>
               inv[i].key \in DOMAIN RouteMap(graph, Last(inv[i].trace))
        /\ \A n \in ConditionalSources(graph) :
               /\ Router(graph, n, inv[i].state) \in DOMAIN RouteMap(graph, n)
               /\ Router(graph, n, inv[i].init) \in DOMAIN RouteMap(graph, n)
        /\ DOMAIN RouteMap("example_01", "input_fruit") = {"to_confirm_fruit", "to_error"}
        /\ DOMAIN RouteMap("example_02", "input_fruit") = {"to_review_fruit", "to_error"}
        /\ DOMAIN RouteMap("example_02", "review_fruit") = {"to_confirm_fruit", "to_error"}

\* continue_next of example_02 has returned to_review_fruit and the route
\* map has led on to review_fruit
C10_Witness ==
    \E i \in Invs :
        /\ graph = "example_02"
        /\ inv[i].status = "running"
        /\ inv[i].key = "to_review_fruit"
        /\ inv[i].cur = "review_fruit"

---------------------------------------------------------------------------
\* node n is among the nodes invocation i has executed
Executed(i, n) == \E k \in DOMAIN inv[i].trace : inv[i].trace[k] = n

---------------------------------------------------------------------------
\* C12: the nodes put invalid input into the state and never raise: for
\* every initial state GraphState allows, init_input = None included, no
\* node or router raises, input_fruit returns a partial state (fruit =
\* "error" when init_input is no valid fruit) and the invocation goes on to
\* END.
C12_InvalidInputIsAStateValue ==
    \A i \in Invs :
        Started(i) =>
            /\ inv[i].status \in {"running", "done"}
            /\ inv[i].error = ""
            /\ inv[i].trace # <<>> =>
                /\ "fruit" \in DOMAIN inv[i].state
                /\ ~ValidInput(inv[i].init) => inv[i].state["fruit"] = ErrorMarker

---------------------------------------------------------------------------
\* C13: within one invocation START is never re-entered; a node that is
\* current has not been executed before, and when the invocation leaves it
\* its function has been executed once, so no node is executed twice or
\* current twice; and once the current node is END no node or router runs
\* and the running state changes no more.
C13_NodesRunOnce ==
    [][\A i \in Invs :
        /\ inv[i].cur # START => inv'[i].cur # START
        /\ inv[i].status = "running" => ~Executed(i, inv[i].cur)
        /\ (inv[i].cur \in Nodes(graph) /\ inv'[i] # inv[i]) =>
               /\ inv'[i].trace = Append(inv[i].trace, inv[i].cur)
               /\ ~Executed(i, inv'[i].cur)
        /\ \A k, l \in DOMAIN inv'[i].trace :
               inv'[i].trace[k] = inv'[i].trace[l] => k = l
        /\ inv[i].cur = END =>
               /\ inv'[i].cur = END
               /\ inv'[i].state = inv[i].state
               /\ inv'[i].trace = inv[i].trace
               /\ inv'[i].key = inv[i].key
               /\ inv'[i].saw = inv[i].saw]_vars

\* an invocation of example_02 has returned from END after three nodes
C13_Witness ==
    \E i \in Invs :
        /\ graph = "example_02"
        /\ Finished(i)
        /\ inv[i].cur = END
        /\ inv[i].trace = <<"input_fruit", "review_fruit", "confirm_fruit">>

---------------------------------------------------------------------------
\* the static and the conditional sources of the built workflow
StaticSources(w) == {e[1] : e \in w.edges}

BranchSources(w) == {b[1] : b \in w.branches}

\* C14: no statement that builds a workflow raises, and after the last of
\* them the definition is compiled and satisfies the compile-time
\* invariants: one edge leaves START, to input_fruit; every node an edge or
\* a route map names is registered; every registered node has one outgoing
\* connection form, a static edge or a conditional edge and never both;
\* every registered node is reachable from START.  The compiled definition
\* is the one the invoke loop runs on.
C14_BuiltGraphIsValid ==
    /\ workflow.error = ""
    /\ \A e \in workflow.edges :
          e[1] \in workflow.nodes \cup {START} /\ e[2] \in workflow.nodes \cup {END}
    /\ \A b \in workflow.branches :
          b[1] \in workflow.nodes /\ b[3] \in workflow.nodes \cup {END}
    /\ workflow.pc = Len(Script(graph)) =>
        /\ workflow.compiled
        /\ {e \in workflow.edges : e[1] = START} = {<<START, "input_fruit">>}
        /\ START \notin BranchSources(workflow)
        /\ \A n \in workflow.nodes :
              /\ n \in StaticSources(workflow) \/ n \in BranchSources(workflow)
              /\ ~(n \in StaticSources(workflow) /\ n \in BranchSources(workflow))
              /\ Cardinality({e \in workflow.edges : e[1] = n}) <= 1
        /\ workflow.nodes \subseteq Reachable(workflow)
        /\ workflow.nodes = Nodes(graph)
        /\ workflow.edges =
              {<<f, StaticEdges(graph)[f]>> : f \in DOMAIN StaticEdges(graph)}
        /\ BranchSources(workflow) = ConditionalSources(graph)
        /\ \A n \in ConditionalSources(graph) :
              {<<b[2], b[3]>> : b \in {x \in workflow.branches : x[1] = n}}
                  = {<<k, RouteMap(graph, n)[k]>> : k \in DOMAIN RouteMap(graph, n)}

\* example_02.py has run all its builder statements, compile() included
C14_Witness ==
    /\ graph = "example_02"
    /\ workflow.compiled
    /\ workflow.pc = Len(Script(graph))
    /\ Cardinality(workflow.nodes) = Cardinality(Nodes("example_02"))
    /\ <<"review_fruit", "to_confirm_fruit", "confirm_fruit">> \in workflow.branches

---------------------------------------------------------------------------
\* C15: review_fruit does not modify the state.  Whenever review_fruit is
\* the node that has last returned in an invocation of example_02, its
\* partial state has the fruit field only, with the value the field had, and
\* the running state after the merge equals the running state before it ran.
C15_ReviewFruitKeepsState ==
    graph = "example_02" =>
        \A i \in Invs :
            (NodeReturned(i) /\ Last(inv[i].trace) = "review_fruit") =>
                /\ DOMAIN inv[i].partial = {"fruit"}
                /\ inv[i].partial["fruit"] = inv[i].before["fruit"]
                /\ inv[i].state = inv[i].before

\* review_fruit has returned on a state whose fruit was normalised from a
\* padded, capitalised init_input, next to a user_confirmation
C15_Witness ==
    /\ graph = "example_02"
    /\ \E i \in Invs :
        /\ NodeReturned(i)
        /\ Last(inv[i].trace) = "review_fruit"
        /\ DOMAIN inv[i].before = {"init_input", "fruit", "user_confirmation"}
        /\ inv[i].before["fruit"] = apple
        /\ inv[i].before["init_input"] # apple
        /\ inv[i].state = inv[i].before

---------------------------------------------------------------------------
\* C16: in example_01, continue_next decides the next node from the state
\* after input_fruit: once input_fruit has returned, the current node is
\* review_fruit if the fruit is valid and error otherwise (the comment of
\* example_01.py, lines 49-50).
C16_ValidFruitRoutedToReview ==
    graph = "example_01" =>
        \A i \in Invs :
            (NodeReturned(i) /\ Last(inv[i].trace) = "input_fruit") =>
                inv[i].cur = IF inv[i].state["fruit"] \in ValidFruits
                             THEN "review_fruit"
                             ELSE "error"

---------------------------------------------------------------------------
\* the user_confirmation review_decision reads: state.get("user_confirmation")
Confirmed(s0) == Get(s0, "user_confirmation", None) = yes

\* C17: every invocation ends, and ends with a final_result of one of two
\* forms, the success message or "error".  In example_02 it is the success
\* message for the normalised fruit if and only if the normalised init_input
\* is apple, banana or cherry and user_confirmation is exactly "yes"; in
\* every other case it is "error".
C17_SuccessGatedByBothChecks ==
    \A i \in Invs :
        Started(i) =>
            /\ inv[i].status \in {"running", "done"}
            /\ Finished(i) =>
                /\ "final_result" \in DOMAIN inv[i].state
                /\ \/ inv[i].state["final_result"] = ErrorMarker
                   \/ \E f \in ValidFruits :
                          inv[i].state["final_result"] = SelectedMessage(f)
                /\ graph = "example_02" =>
                      inv[i].state["final_result"] =
                          IF ValidInput(inv[i].init) /\ Confirmed(inv[i].init)
                          THEN SelectedMessage(Normalised(inv[i].init))
                          ELSE ErrorMarker

---------------------------------------------------------------------------
\* node m was executed before the k-th node of invocation i
ExecutedBefore(i, m, k) == \E j \in 1..(k - 1) : inv[i].trace[j] = m

\* C18: in every invocation of example_02 confirm_fruit executes, or is the
\* current node, only after review_fruit has executed, and review_fruit only
\* after input_fruit has executed.  In both graphs confirm_fruit and error
\* never both execute in one invocation, and an invocation that is at END
\* has executed exactly one of them.
C18_NodeOrder ==
    \A i \in Invs :
        /\ graph = "example_02" =>
            /\ \A k \in DOMAIN inv[i].trace :
                /\ inv[i].trace[k] = "confirm_fruit" =>
                       ExecutedBefore(i, "review_fruit", k)
                /\ inv[i].trace[k] = "review_fruit" =>
                       ExecutedBefore(i, "input_fruit", k)
            /\ inv[i].cur = "confirm_fruit" => Executed(i, "review_fruit")
            /\ inv[i].cur = "review_fruit" => Executed(i, "input_fruit")
        /\ ~(Executed(i, "confirm_fruit") /\ Executed(i, "error"))
        /\ inv[i].cur = "error" => ~Executed(i, "confirm_fruit")
        /\ inv[i].cur = "confirm_fruit" => ~Executed(i, "error")
        /\ inv[i].cur = END =>
               Executed(i, "confirm_fruit") \/ Executed(i, "error")

\* an invocation of example_02 is at END after review_fruit led to error,
\* with a valid fruit and no confirm_fruit
C18_Witness ==
    \E i \in Invs :
        /\ graph = "example_02"
        /\ inv[i].cur = END
        /\ inv[i].state["fruit"] \in ValidFruits
        /\ Executed(i, "review_fruit")
        /\ Executed(i, "error")
        /\ ~Executed(i, "confirm_fruit")

---------------------------------------------------------------------------
\* C19: whenever review_fruit or confirm_fruit is the current node of an
\* invocation of either graph, the fruit field is present in the running
\* state and is apple, banana or cherry, whatever fruit the caller placed in
\* the initial state.  So no state['fruit'] lookup raises KeyError, and the
\* message confirm_fruit writes never names "error".
C19_FruitValidAtReviewAndConfirm ==
    \A i \in Invs :
        /\ (inv[i].status = "running"
                /\ inv[i].cur \in {"review_fruit", "confirm_fruit"}) =>
            /\ "fruit" \in DOMAIN RunningState(i)
            /\ RunningState(i)["fruit"] \in ValidFruits
            /\ ~review_fruit_raises(RunningState(i))
            /\ ~confirm_fruit_raises(RunningState(i))
        /\ inv[i].error # "KeyError"
        /\ Executed(i, "confirm_fruit") =>
            /\ inv[i].state["final_result"] # SelectedMessage(ErrorMarker)
            /\ inv[i].state["final_result"] = SelectedMessage(inv[i].state["fruit"])

\* confirm_fruit is the current node of an invocation whose caller had put
\* fruit = "error" into the initial state
C19_Witness ==
    \E i \in Invs :
        /\ inv[i].status = "running"
        /\ inv[i].cur = "confirm_fruit"
        /\ Get(inv[i].init, "fruit", EmptyStr) = ErrorMarker
        /\ RunningState(i)["fruit"] \in ValidFruits

====
